---- MODULE Spec2Model ----
(***************************************************************************)
(* Model of the memory-preflight plugin: the before_agent_start handler of *)
(* src/index.ts (hybrid variant: Ollama extractor, QMD keyword search,     *)
(* semantic fallback) and of src/unnamed/part_003 (legacy variant:         *)
(* extractor with stop-word fallback, host memory tool only).              *)
(*                                                                         *)
(* Text is a sequence of one-character strings, so that the regular        *)
(* expressions, split/join and slice of the source are computed character  *)
(* by character. NullStr stands for JavaScript's null/undefined string.    *)
(***************************************************************************)
EXTENDS Integers, Sequences, FiniteSets, TLC

\* ------------------------------------------------------------------ text

NullStr == <<"<null>">>

UpperChars == <<"A","B","C","D","E","F","G","H","I","J","K","L","M",
                "N","O","P","Q","R","S","T","U","V","W","X","Y","Z">>

LowerChars == <<"a","b","c","d","e","f","g","h","i","j","k","l","m",
                "n","o","p","q","r","s","t","u","v","w","x","y","z">>

UpperSet == {UpperChars[i] : i \in 1..26}

DigitSet == {"0","1","2","3","4","5","6","7","8","9"}

\* \s of the regular expressions and the characters String.prototype.trim strips
IsWs(c) == c \in {" ", "\n", "\t"}

\* the line terminator that . does not match and that ^ and $ (m flag) look at
IsLineTerm(c) == c = "\n"

IsDigit(c) == c \in DigitSet

IsUpper(c) == c \in UpperSet

CharAt(s, i) == IF i \in 1..Len(s) THEN s[i] ELSE ""

ToLowerChar(c) ==
  IF c \in UpperSet THEN LowerChars[CHOOSE i \in 1..26 : UpperChars[i] = c] ELSE c

\* String.prototype.toLowerCase
ToLowerCase(s) == [i \in 1..Len(s) |-> ToLowerChar(s[i])]

\* whether the literal lit occurs in s at position i
LitAt(s, i, lit) ==
  /\ i >= 1
  /\ i + Len(lit) - 1 <= Len(s)
  /\ \A k \in 1..Len(lit) : s[i + k - 1] = lit[k]

\* first position >= i holding character c, 0 when there is none
IndexOfChar(s, i, c) ==
  IF \E j \in i..Len(s) : s[j] = c
  THEN CHOOSE j \in i..Len(s) : s[j] = c /\ \A k \in i..(j-1) : s[k] # c
  ELSE 0

\* position after the longest run of whitespace starting at i (greedy \s*)
SkipWs(s, i) ==
  CHOOSE j \in i..(Len(s)+1) :
    /\ \A k \in i..(j-1) : IsWs(s[k])
    /\ (j = Len(s) + 1 \/ ~IsWs(s[j]))

\* position after the longest run of capitals starting at i (greedy [A-Z]*)
SkipUpper(s, i) ==
  CHOOSE j \in i..(Len(s)+1) :
    /\ \A k \in i..(j-1) : IsUpper(s[k])
    /\ (j = Len(s) + 1 \/ ~IsUpper(s[j]))

\* whether n digits stand at position i (\d{n})
DigitsAt(s, i, n) == \A k \in 0..(n-1) : IsDigit(CharAt(s, i + k))

\* ^ under the m flag: start of input or just after a line terminator
AtLineStart(s, i) == i = 1 \/ (i >= 2 /\ i - 1 <= Len(s) /\ IsLineTerm(s[i-1]))

\* String.prototype.trim
Trim(s) ==
  IF \A k \in 1..Len(s) : IsWs(s[k]) THEN <<>>
  ELSE LET a == CHOOSE i \in 1..Len(s) : ~IsWs(s[i]) /\ \A k \in 1..(i-1) : IsWs(s[k])
           b == CHOOSE i \in 1..Len(s) : ~IsWs(s[i]) /\ \A k \in (i+1)..Len(s) : IsWs(s[k])
       IN SubSeq(s, a, b)

\* String.prototype.slice(0, n)
Slice0(s, n) == IF Len(s) <= n THEN s ELSE SubSeq(s, 1, n)

\* --------------------------------------------------- prompt cleaning

\* "[message_id:"
LitMessageId == <<"[","m","e","s","s","a","g","e","_","i","d",":">>

\* "System:"
LitSystem == <<"S","y","s","t","e","m",":">>

\* Mon|Tue|Wed|Thu|Fri|Sat|Sun
DayNames == {<<"M","o","n">>, <<"T","u","e">>, <<"W","e","d">>, <<"T","h","u">>, <<"F","r","i">>, <<"S","a","t">>, <<"S","u","n">>}

(* Each Match operator gives, for a match of its expression starting at    *)
(* position i, the position just after the match, and 0 when the           *)
(* expression does not match at i.                                         *)

\* /\n?\[message_id:\s*[^\]]+\]/ : up to the first "]", at least one character before it
MatchMessageId(s, i) ==
  LET a == IF CharAt(s, i) = "\n" THEN i + 1 ELSE i
      b == a + Len(LitMessageId)
      j == IndexOfChar(s, b, "]")
  IN IF LitAt(s, a, LitMessageId) /\ j > b THEN j + 1 ELSE 0

\* /^\[(?:Mon|...|Sun)\s+\d{4}-\d{2}-\d{2}\s+\d{1,2}:\d{2}\s+[A-Z]+\]\s*/m
MatchTimestamp(s, i) ==
  LET p1 == i + 4
      p2 == SkipWs(s, p1)
      p3 == p2 + 10
      p4 == SkipWs(s, p3)
      nh == IF IsDigit(CharAt(s, p4 + 1)) THEN 2 ELSE 1
      p5 == p4 + nh + 3
      p6 == SkipWs(s, p5)
      p7 == SkipUpper(s, p6)
  IN IF /\ AtLineStart(s, i)
        /\ CharAt(s, i) = "["
        /\ \E d \in DayNames : LitAt(s, i + 1, d)
        /\ p2 > p1
        /\ DigitsAt(s, p2, 4) /\ CharAt(s, p2 + 4) = "-"
        /\ DigitsAt(s, p2 + 5, 2) /\ CharAt(s, p2 + 7) = "-"
        /\ DigitsAt(s, p2 + 8, 2)
        /\ p4 > p3
        /\ DigitsAt(s, p4, nh) /\ CharAt(s, p4 + nh) = ":"
        /\ DigitsAt(s, p4 + nh + 1, 2)
        /\ p6 > p5
        /\ p7 > p6
        /\ CharAt(s, p7) = "]"
     THEN SkipWs(s, p7 + 1)
     ELSE 0

\* /^System:\s*\[.*?\].*$/m : to the end of the line that holds the first "]"
MatchSystemLine(s, i) ==
  LET p1 == SkipWs(s, i + Len(LitSystem))
      j  == IndexOfChar(s, p1 + 1, "]")
      nl == IndexOfChar(s, p1 + 1, "\n")
      e  == IndexOfChar(s, j + 1, "\n")
  IN IF /\ AtLineStart(s, i)
        /\ LitAt(s, i, LitSystem)
        /\ CharAt(s, p1) = "["
        /\ j > 0
        /\ (nl = 0 \/ nl > j)
     THEN (IF e = 0 THEN Len(s) + 1 ELSE e)
     ELSE 0

\* position after the first "\n}" at or after position i, 0 when there is none
AfterNewlineBrace(s, i) ==
  IF \E k \in i..(Len(s)-1) : s[k] = "\n" /\ s[k+1] = "}"
  THEN 2 + (CHOOSE k \in i..(Len(s)-1) :
              /\ s[k] = "\n" /\ s[k+1] = "}"
              /\ \A m \in i..(k-1) : ~(s[m] = "\n" /\ s[m+1] = "}"))
  ELSE 0

\* /System:\s*\[[^\]]*\]\s*\{[\s\S]*?\n\}/
MatchSystemBracketJson(s, i) ==
  LET p1 == SkipWs(s, i + Len(LitSystem))
      j  == IndexOfChar(s, p1 + 1, "]")
      p2 == SkipWs(s, j + 1)
  IN IF /\ LitAt(s, i, LitSystem)
        /\ CharAt(s, p1) = "["
        /\ j > 0
        /\ CharAt(s, p2) = "{"
     THEN AfterNewlineBrace(s, p2 + 1)
     ELSE 0

\* /System:\s*\{[\s\S]*?\n\}/
MatchSystemJson(s, i) ==
  LET p1 == SkipWs(s, i + Len(LitSystem))
  IN IF LitAt(s, i, LitSystem) /\ CharAt(s, p1) = "{"
     THEN AfterNewlineBrace(s, p1 + 1)
     ELSE 0

MatchRule(rule, s, i) ==
  CASE rule = "message_id"   -> MatchMessageId(s, i)
    [] rule = "timestamp"    -> MatchTimestamp(s, i)
    [] rule = "system_line"  -> MatchSystemLine(s, i)
    [] rule = "system_bjson" -> MatchSystemBracketJson(s, i)
    [] rule = "system_json"  -> MatchSystemJson(s, i)

\* first position >= i where the rule matches, 0 when there is none
NextMatch(rule, s, i) ==
  LET M == {p \in i..Len(s) : MatchRule(rule, s, p) > 0}
  IN IF M = {} THEN 0 ELSE CHOOSE p \in M : \A q \in M : p <= q

\* s.replace(/rule/g, "") from position i on: matches are found left to right,
\* each search resuming where the previous match ended
RECURSIVE RemoveAllFrom(_, _, _)
RemoveAllFrom(rule, s, i) ==
  LET p == NextMatch(rule, s, i)
  IN IF p = 0 THEN SubSeq(s, i, Len(s))
     ELSE SubSeq(s, i, p - 1) \o RemoveAllFrom(rule, s, MatchRule(rule, s, p))

RemoveAll(rule, s) == RemoveAllFrom(rule, s, 1)

\* the cleaning chain of the handler: five replaces, then trim
CleanPrompt(rawPrompt) ==
  Trim(RemoveAll("system_json",
       RemoveAll("system_bjson",
       RemoveAll("system_line",
       RemoveAll("timestamp",
       RemoveAll("message_id", rawPrompt))))))

\* ------------------------------------------------------ eligibility

\* the raw prompt must be present and at least this long
MinRawLength == 10

\* the cleaned prompt must be at least this long
MinCleanLength == 3

\* ok|okay|sure|thanks|thank you|yes|no|yep|nope|got it|sounds good
AckWords == {
  <<"o","k">>, <<"o","k","a","y">>, <<"s","u","r","e">>, <<"t","h","a","n","k","s">>,
  <<"t","h","a","n","k"," ","y","o","u">>, <<"y","e","s">>, <<"n","o">>, <<"y","e","p">>,
  <<"n","o","p","e">>, <<"g","o","t"," ","i","t">>,
  <<"s","o","u","n","d","s"," ","g","o","o","d">> }

\* hi|hello|hey|morning|evening
GreetingWords == {
  <<"h","i">>, <<"h","e","l","l","o">>, <<"h","e","y">>, <<"m","o","r","n","i","n","g">>,
  <<"e","v","e","n","i","n","g">> }

\* whether the literal lit occurs in s at position i, letter case ignored (i flag)
LitAtIgnoreCase(s, i, lit) ==
  /\ i + Len(lit) - 1 <= Len(s)
  /\ \A k \in 1..Len(lit) : ToLowerChar(s[i + k - 1]) = lit[k]

\* MatchesWordPattern without the i flag
MatchesWordPatternExact(words, s) ==
  \E w \in words :
    /\ LitAt(s, 1, w)
    /\ LET p == Len(w) + 1
       IN p = Len(s) + 1 \/ (p = Len(s) /\ s[p] = ".")

\* /^(w1|w2|...)\.?$/i : one of the words, an optional period, the end of the text
MatchesWordPattern(words, s) ==
  \E w \in words :
    /\ LitAtIgnoreCase(s, 1, w)
    /\ LET p == Len(w) + 1
       IN p = Len(s) + 1 \/ (p = Len(s) /\ s[p] = ".")

\* skipPatterns.some((p) => p.test(prompt))
MatchesSkipPattern(prompt) ==
  MatchesWordPattern(AckWords, prompt) \/ MatchesWordPattern(GreetingWords, prompt)

\* prompt.startsWith("/")
IsSlashCommand(prompt) == CharAt(prompt, 1) = "/"

\* RawTooShort without its length check
RawTooShortEmptyOnly(rawPrompt) == rawPrompt = NullStr \/ Len(rawPrompt) = 0

\* !rawPrompt || rawPrompt.length < 10
RawTooShort(rawPrompt) ==
  rawPrompt = NullStr \/ Len(rawPrompt) = 0 \/ Len(rawPrompt) < MinRawLength

\* the three eligibility checks made on the cleaned prompt
Rejected(prompt) ==
  \/ Len(prompt) < MinCleanLength
  \/ IsSlashCommand(prompt)
  \/ MatchesSkipPattern(prompt)

\* --------------------------------------------------- split and join

\* the positions of s, in increasing order
Positions(s) == [k \in 1..Len(s) |-> k]

\* s.replace(/,/g, " ") and the like
ReplaceChar(s, from, to) == [i \in 1..Len(s) |-> IF s[i] = from THEN to ELSE s[i]]

\* s.replace(/\s+/g, " ") : every run of whitespace becomes one space
CollapseWs(s) ==
  LET keep == SelectSeq(Positions(s),
                        LAMBDA k : ~IsWs(s[k]) \/ k = 1 \/ ~IsWs(s[k-1]))
  IN [j \in 1..Len(keep) |-> IF IsWs(s[keep[j]]) THEN " " ELSE s[keep[j]]]

\* s.split(sep) for a one-character separator: the fields between the
\* separators, empty fields included; "" splits into one empty field
Split(s, sep) ==
  LET seps == SelectSeq(Positions(s), LAMBDA k : s[k] = sep)
      n    == Len(seps) + 1
      from(j) == IF j = 1 THEN 1 ELSE seps[j-1] + 1
      to(j)   == IF j = n THEN Len(s) ELSE seps[j] - 1
  IN [j \in 1..n |-> SubSeq(s, from(j), to(j))]

\* parts.join(sep), by halves
RECURSIVE Join(_, _)
Join(parts, sep) ==
  IF Len(parts) = 0 THEN <<>>
  ELSE IF Len(parts) = 1 THEN parts[1]
  ELSE LET h == Len(parts) \div 2
       IN Join(SubSeq(parts, 1, h), sep) \o sep
            \o Join(SubSeq(parts, h + 1, Len(parts)), sep)

\* s.split(/\s+/) : the fields between the runs of whitespace
SplitWs(s) == Split(CollapseWs(s), " ")

\* ------------------------------------------------- term extraction

\* entities.length < 300 (hybrid variant)
MaxEntitiesLength == 300

\* entities.length < 200 (legacy variant)
LegacyMaxEntitiesLength == 200

\* at most this many terms go into the keyword query
MaxSearchTerms == 3

\* searchQuery.length < 2 ends the turn (hybrid variant)
MinQueryLength == 2

\* searchQuery.length < 3 ends the turn (legacy variant)
LegacyMinQueryLength == 3

\* What the extractor endpoint did with the request. kind is one of
\*   "fetch_error"  fetch rejected (connection refused, timeout)
\*   "http_error"   a response whose ok is false
\*   "bad_json"     res.json() rejected
\*   "no_response"  a JSON body without a response field
\*   "response"     a JSON body whose response field is the text .response
ReplyKinds == {"fetch_error", "http_error", "bad_json", "no_response", "response"}

\* ExtractEntities without its catch: a failed fetch or a bad body rejects
ExtractEntitiesUncaught(reply, limit) ==
  IF reply.kind \in {"fetch_error", "bad_json"} THEN [threw |-> TRUE, value |-> NullStr]
  ELSE IF reply.kind # "response" THEN [threw |-> FALSE, value |-> NullStr]
  ELSE LET entities == Trim(reply.response)
       IN IF Len(entities) > 0 /\ Len(entities) < limit
          THEN [threw |-> FALSE, value |-> entities]
          ELSE [threw |-> FALSE, value |-> NullStr]

\* extractEntities: the trimmed response when it is non-empty and shorter than
\* limit, null otherwise; every failure is caught inside and gives null.
\* threw tells whether the call rejected.
ExtractEntities(reply, limit) ==
  IF reply.kind # "response" THEN [threw |-> FALSE, value |-> NullStr]
  ELSE LET entities == Trim(reply.response)
       IN IF Len(entities) > 0 /\ Len(entities) < limit
          THEN [threw |-> FALSE, value |-> entities]
          ELSE [threw |-> FALSE, value |-> NullStr]

\* llmEntities.toLowerCase().replace(/,/g, " ").replace(/\s+/g, " ").trim().split(" ")
AllTerms(llmEntities) ==
  Split(Trim(CollapseWs(ReplaceChar(ToLowerCase(llmEntities), ",", " "))), " ")

\* SearchTerms without the slice
SearchTermsUncapped(llmEntities) == AllTerms(llmEntities)

\* allTerms.slice(0, 3)
SearchTerms(llmEntities) ==
  LET allTerms == AllTerms(llmEntities)
  IN IF Len(allTerms) <= MaxSearchTerms THEN allTerms
     ELSE SubSeq(allTerms, 1, MaxSearchTerms)

\* searchTerms.join(" ") : the query of the hybrid variant
SearchQuery(llmEntities) == Join(SearchTerms(llmEntities), <<" ">>)

\* llmEntities.toLowerCase().replace(/,/g, " ") : the query of the legacy variant
LegacySearchQuery(llmEntities) == ReplaceChar(ToLowerCase(llmEntities), ",", " ")

StopWords == {
  <<"w","h","a","t">>, <<"w","h","o">>, <<"w","h","e","r","e">>, <<"w","h","e","n">>,
  <<"w","h","y">>, <<"h","o","w">>, <<"w","h","i","c","h">>, <<"i","s">>, <<"a","r","e">>,
  <<"w","a","s">>, <<"w","e","r","e">>, <<"b","e">>, <<"b","e","e","n">>,
  <<"b","e","i","n","g">>, <<"t","h","e">>, <<"a">>, <<"a","n">>, <<"t","h","i","s">>,
  <<"t","h","a","t">>, <<"t","h","e","s","e">>, <<"t","h","o","s","e">>, <<"i">>,
  <<"y","o","u">>, <<"h","e">>, <<"s","h","e">>, <<"i","t">>, <<"w","e">>,
  <<"t","h","e","y">>, <<"m","e">>, <<"h","i","m">>, <<"h","e","r">>, <<"u","s">>,
  <<"t","h","e","m">>, <<"m","y">>, <<"y","o","u","r">>, <<"h","i","s">>, <<"i","t","s">>,
  <<"o","u","r">>, <<"t","h","e","i","r">>, <<"d","o">>, <<"d","o","e","s">>,
  <<"d","i","d">>, <<"h","a","v","e">>, <<"h","a","s">>, <<"h","a","d">>, <<"c","a","n">>,
  <<"c","o","u","l","d">>, <<"w","i","l","l">>, <<"w","o","u","l","d">>,
  <<"s","h","o","u","l","d">>, <<"a","b","o","u","t">>, <<"w","i","t","h">>,
  <<"f","r","o","m">>, <<"i","n","t","o">>, <<"o","f">>, <<"f","o","r">>, <<"o","n">>,
  <<"a","t">>, <<"t","o">>, <<"b","y">>, <<"a","n","d">>, <<"o","r">>, <<"b","u","t">>,
  <<"i","f">>, <<"t","h","e","n">>, <<"s","o">>, <<"b","e","c","a","u","s","e">>,
  <<"t","e","l","l">>, <<"k","n","o","w">>, <<"t","h","i","n","k">>, <<"s","e","e">>,
  <<"s","a","y">>, <<"t","a","l","k">>, <<"l","o","o","k">>, <<"f","i","n","d">>,
  <<"g","e","t">>, <<"g","i","v","e">>, <<"j","u","s","t">>, <<"a","l","s","o">>,
  <<"v","e","r","y">>, <<"r","e","a","l","l","y">>, <<"n","o","w">>, <<"h","e","r","e">>,
  <<"t","h","e","r","e">>, <<"h","i","n","t","s">>, <<"h","i","n","t">>,
  <<"s","e","e","i","n","g">>, <<"s","h","o","w","i","n","g">>, <<"s","h","o","w">>,
  <<"r","e","c","a","l","l">>, <<"r","e","m","e","m","b","e","r">>,
  <<"r","e","m","e","m","b","e","r","e","d">>, <<"m","e","m","o","r","y">>,
  <<"m","e","m","o","r","i","e","s">>, <<"f","i","l","e">>, <<"f","i","l","e","s">>,
  <<"c","o","n","t","e","x","t">>, <<"r","e","l","e","v","a","n","t">>,
  <<"r","e","l","a","t","e","d">> }

\* w.replace(/[?.,!]/g, "") leaving the word as it is
StripPunctuationNone(w) == w

\* w.replace(/[?.,!]/g, "")
StripPunctuation(w) == SelectSeq(w, LAMBDA c : c \notin {"?", ".", ",", "!"})

\* the stop-word fallback of the legacy variant: lower-case, split on
\* whitespace, keep the words longer than one character that are no stop
\* word once their punctuation is stripped, join with spaces
StopWordQuery(prompt) ==
  Join(SelectSeq(SplitWs(ToLowerCase(prompt)),
                 LAMBDA w : Len(w) > 1 /\ StripPunctuation(w) \notin StopWords),
       <<" ">>)

\* --------------------------------------------------- keyword search

\* "qmd://memory/"
LitQmdPrefix == <<"q","m","d",":","/","/","m","e","m","o","r","y","/">>

\* "memory/"
LitMemoryDir == <<"m","e","m","o","r","y","/">>

\* position after the longest run of digits starting at i
SkipDigits(s, i) ==
  CHOOSE j \in i..(Len(s)+1) :
    /\ \A k \in i..(j-1) : IsDigit(s[k])
    /\ (j = Len(s) + 1 \/ ~IsDigit(s[j]))

DigitValue(c) == CHOOSE d \in 0..9 : <<"0","1","2","3","4","5","6","7","8","9">>[d + 1] = c

RECURSIVE DigitsToNat(_)
DigitsToNat(ds) ==
  IF Len(ds) = 0 THEN 0
  ELSE 10 * DigitsToNat(SubSeq(ds, 1, Len(ds) - 1)) + DigitValue(ds[Len(ds)])

RECURSIVE PowerOfTen(_)
PowerOfTen(n) == IF n = 0 THEN 1 ELSE 10 * PowerOfTen(n - 1)

\* digits without their trailing zeros
DropTrailingZeros(ds) ==
  IF \A k \in 1..Len(ds) : ds[k] = "0" THEN <<>>
  ELSE SubSeq(ds, 1, CHOOSE i \in 1..Len(ds) :
                        ds[i] # "0" /\ \A k \in (i+1)..Len(ds) : ds[k] = "0")

NaN == [nan |-> TRUE, num |-> 0, den |-> 1]

\* parseFloat: leading whitespace skipped, then the longest prefix of the form
\* [+-]digits[.digits] or [+-].digits; NaN when there is none. A number is the
\* fraction num/den, den a power of ten and the fraction in lowest decimal form.
\* (Exponents and Infinity are outside the texts considered.)
ParseFloat(s) ==
  LET p0 == SkipWs(s, 1)
      p1 == IF CharAt(s, p0) \in {"+", "-"} THEN p0 + 1 ELSE p0
      p2 == SkipDigits(s, p1)
      p3 == IF CharAt(s, p2) = "." THEN SkipDigits(s, p2 + 1) ELSE p2
      whole == SubSeq(s, p1, p2 - 1)
      frac  == DropTrailingZeros(SubSeq(s, p2 + 1, p3 - 1))
      mag   == DigitsToNat(whole \o frac)
  IN IF p2 > p1 \/ p3 > p2 + 1
     THEN [nan |-> FALSE,
           num |-> IF CharAt(s, p0) = "-" THEN 0 - mag ELSE mag,
           den |-> PowerOfTen(Len(frac))]
     ELSE NaN

\* RelativePath without the replace
RelativePathKept(qmdPath) == qmdPath

\* qmdPath.replace(/^qmd:\/\/memory\//, "memory/")
RelativePath(qmdPath) ==
  IF LitAt(qmdPath, 1, LitQmdPrefix)
  THEN LitMemoryDir \o SubSeq(qmdPath, Len(LitQmdPrefix) + 1, Len(qmdPath))
  ELSE qmdPath

\* one output line with at least three comma-separated parts
QmdHit(line) ==
  LET parts == Split(line, ",")
  IN [hash  |-> parts[1],
      score |-> ParseFloat(parts[2]),
      path  |-> RelativePath(Join(SubSeq(parts, 3, Len(parts)), <<",">>))]

\* ParseQmdOutput keeping the first five hits only
ParseQmdOutputCapped(stdout) ==
  LET hits == IF Len(Trim(stdout)) = 0 THEN <<>>
              ELSE LET lines == Split(Trim(stdout), "\n")
                       good  == SelectSeq(lines, LAMBDA line : Len(Split(line, ",")) >= 3)
                   IN [k \in 1..Len(good) |-> QmdHit(good[k])]
  IN IF Len(hits) <= 5 THEN hits ELSE SubSeq(hits, 1, 5)

\* the parsing loop of searchWithQmd over stdout
ParseQmdOutput(stdout) ==
  IF Len(Trim(stdout)) = 0 THEN <<>>
  ELSE LET lines == Split(Trim(stdout), "\n")
           good  == SelectSeq(lines, LAMBDA line : Len(Split(line, ",")) >= 3)
       IN [k \in 1..Len(good) |-> QmdHit(good[k])]

\* SearchWithQmd without its catch: a failed process rejects
SearchWithQmdUncaught(outcome) ==
  IF outcome.kind = "stdout"
  THEN [threw |-> FALSE, value |-> ParseQmdOutput(outcome.stdout)]
  ELSE [threw |-> TRUE, value |-> <<>>]

\* What the keyword process did: kind "exec_error" (non-zero exit, or killed
\* at the 5 s timeout) or kind "stdout" with its output .stdout.
\* searchWithQmd: the parsed hits; a failed process is caught and gives none.
SearchWithQmd(outcome) ==
  IF outcome.kind = "stdout"
  THEN [threw |-> FALSE, value |-> ParseQmdOutput(outcome.stdout)]
  ELSE [threw |-> FALSE, value |-> <<>>]

\* maxResults passed to both backends
MaxResults == 5

\* ---------------------------------------------------------- previews

\* head -c 500
SnippetHeadBytes == 500

\* getSnippet's maxChars default
SnippetMaxChars == 100

\* slice(0, 80) of a semantic snippet
SemanticPreviewChars == 80

\* prompt.slice(0, 200) : the semantic query and the logged prompt
PromptSliceChars == 200

\* stdout.replace(/^#.*\n/, "") : a heading on the first line goes, with its newline
StripHeading(s) ==
  LET nl == IndexOfChar(s, 1, "\n")
  IN IF CharAt(s, 1) = "#" /\ nl > 0 THEN SubSeq(s, nl + 1, Len(s)) ELSE s

\* getSnippet returning the cleaned text whole
GetSnippetWhole(outcome, maxChars) ==
  IF outcome.kind = "stdout"
  THEN [threw |-> FALSE,
        value |-> Trim(CollapseWs(StripHeading(Slice0(outcome.stdout, SnippetHeadBytes))))]
  ELSE [threw |-> FALSE, value |-> <<>>]

\* What reading the file did: kind "exec_error" (no such file) or kind
\* "stdout" with the file's text .stdout.
\* getSnippet: the cleaned first characters; a failed read is caught and gives "".
GetSnippet(outcome, maxChars) ==
  IF outcome.kind = "stdout"
  THEN [threw |-> FALSE,
        value |-> Slice0(Trim(CollapseWs(StripHeading(
                           Slice0(outcome.stdout, SnippetHeadBytes)))), maxChars)]
  ELSE [threw |-> FALSE, value |-> <<>>]

\* ".openclaw/workspace/"
LitWorkspace == <<".","o","p","e","n","c","l","a","w","/","w","o","r","k","s","p","a","c","e","/">>

\* path.replace(/^.*\.openclaw\/workspace\//, "") : everything up to the last
\* ".openclaw/workspace/" of the first line goes
StripWorkspace(path) ==
  LET nl == IndexOfChar(path, 1, "\n")
      M  == {p \in 1..Len(path) :
               LitAt(path, p, LitWorkspace) /\ (nl = 0 \/ nl >= p)}
  IN IF M = {} THEN path
     ELSE LET p == CHOOSE q \in M : \A r \in M : r <= q
          IN SubSeq(path, p + Len(LitWorkspace), Len(path))

\* a hint line  - <path> (<score.toFixed(2)>): "<preview>..."  as its three parts
HintLine(path, score, preview) == [path |-> path, score |-> score, preview |-> preview]

\* the line for one keyword hit, once its snippet is read
KeywordHint(r, snippet) == HintLine(r.path, r.score, snippet)

\* the line for one semantic hit of the hybrid variant
GeminiHint(r) ==
  HintLine(StripWorkspace(r.path), r.score,
           Slice0(Trim(CollapseWs(r.snippet)), SemanticPreviewChars))

\* the line for one hit of the legacy variant
LegacyHint(r) ==
  HintLine(StripWorkspace(r.path), r.score,
           Trim(Slice0(Trim(CollapseWs(r.snippet)), SemanticPreviewChars)))

\* the <memory-hints> block "Possibly relevant (read if needed):" with its lines
HintBlock(lines) == [heading |-> "Possibly relevant (read if needed):", lines |-> lines]

\* the <memory-hints> block that says recall is disabled
DisabledBlock ==
  [heading |-> "Local LLM (Ollama) not running. Memory search disabled.", lines |-> <<>>]

\* ------------------------------------------------- the environment

\* the text s repeated n times
Repeat(s, n) == [i \in 1..(n * Len(s)) |-> s[((i - 1) % Len(s)) + 1]]

\* "thanks"
PromptThanks ==
    <<"t","h","a","n","k","s">>

\* "[Mon 2024-01-01 10:00 UTC] Thanks."
PromptStampedThanks ==
    <<"[","M","o","n"," ","2","0","2","4","-","0","1","-","0","1"," ","1","0",":","0","0"," ",
      "U","T","C","]"," ","T","h","a","n","k","s",".">>

\* "Sounds Good."
PromptSoundsGood ==
    <<"S","o","u","n","d","s"," ","G","o","o","d",".">>

\* "/new session"
PromptSlash ==
    <<"/","n","e","w"," ","s","e","s","s","i","o","n">>

\* "[Mon 2024-01-01 10:00 UTC] hi\n[message_id: ab12]"
PromptStampedHi ==
    <<"[","M","o","n"," ","2","0","2","4","-","0","1","-","0","1"," ","1","0",":","0","0"," ",
      "U","T","C","]"," ","h","i","\n","[","m","e","s","s","a","g","e","_","i","d",":"," ","a",
      "b","1","2","]">>

\* "tell me about the Toronto trip"
PromptTrip ==
    <<"t","e","l","l"," ","m","e"," ","a","b","o","u","t"," ","t","h","e"," ","T","o","r","o",
      "n","t","o"," ","t","r","i","p">>

\* "[Tue 2024-01-02 9:05 EST] what is my plan?\n[message_id: x1]"
PromptPlan ==
    <<"[","T","u","e"," ","2","0","2","4","-","0","1","-","0","2"," ","9",":","0","5"," ","E",
      "S","T","]"," ","w","h","a","t"," ","i","s"," ","m","y"," ","p","l","a","n","?","\n","[",
      "m","e","s","s","a","g","e","_","i","d",":"," ","x","1","]">>

\* "[Mon 2024-01-01 10:00 UTC] [Tue 2024-01-02 9:05 EST] hello there"
PromptTwoStamps ==
    <<"[","M","o","n"," ","2","0","2","4","-","0","1","-","0","1"," ","1","0",":","0","0"," ",
      "U","T","C","]"," ","[","T","u","e"," ","2","0","2","4","-","0","1","-","0","2"," ","9",
      ":","0","5"," ","E","S","T","]"," ","h","e","l","l","o"," ","t","h","e","r","e">>

\* "my trip?"
PromptShortQuestion == <<"m","y"," ","t","r","i","p","?">>

\* "remind me of the plan " twelve times: 264 characters
PromptLong == Repeat(<<"r","e","m","i","n","d"," ","m","e"," ","o","f"," ","t","h","e"," ","p","l","a","n"," ">>, 12)

\* the raw prompts of the turns: absent, empty, too short, acknowledgements,
\* a slash command, metadata only around a short text, and eligible messages
RawPrompts ==
  {NullStr, <<>>, PromptThanks, PromptShortQuestion, PromptStampedThanks,
   PromptSoundsGood, PromptSlash, PromptStampedHi, PromptTrip, PromptPlan,
   PromptTwoStamps, PromptLong}

\* the most words a prompt of WordPrompts has after its first four
MaxPromptWords == 2

\* "So what about Plan, "
PromptHead ==
  <<"S","o"," ","w","h","a","t"," ","a","b","o","u","t"," ","P","l","a","n",","," ">>

\* "The? "  "Toronto\t"  "a?  "  "x " : a word and the whitespace after it
WordPieces ==
  {<<"T","h","e","?"," ">>, <<"T","o","r","o","n","t","o","\t">>,
   <<"a","?"," "," ">>, <<"x"," ">>}

\* "So what about Plan, " followed by at most MaxPromptWords words
WordPrompts ==
  UNION {{PromptHead \o Join(pieces, <<>>) : pieces \in [1..n -> WordPieces]} :
           n \in 0..MaxPromptWords}

\* CleanPrompt of every raw prompt of the environment, computed once
CleanedPrompts == [raw \in (RawPrompts \cup WordPrompts) \ {NullStr} |-> CleanPrompt(raw)]

SessionKeys == {"s1", "s2"}

\* "Toronto, trip"
ReplyToronto ==
    <<"T","o","r","o","n","t","o",","," ","t","r","i","p">>

\* " Plan ,\tTrip\nNotes, Extra "
ReplyFourTerms ==
    <<" ","P","l","a","n"," ",",","\t","T","r","i","p","\n","N","o","t","e","s",","," ","E","x",
      "t","r","a"," ">>

\* ","
ReplyComma ==
    <<",">>

\* "x"
ReplyLetter ==
    <<"x">>

\* "ab, " seventy-five times and a "c": 301 characters
ReplyLong == Repeat(<<"a","b",","," ">>, 75) \o <<"c">>

Response(text) == [kind |-> "response", response |-> text]

\* what the extractor endpoint may answer
ExtractorReplies ==
  {[kind |-> "fetch_error"], [kind |-> "http_error"], [kind |-> "bad_json"],
   [kind |-> "no_response"], Response(<<>>), Response(<<" ", "\n">>),
   Response(ReplyToronto), Response(ReplyFourTerms), Response(ReplyComma),
   Response(ReplyLetter), Response(ReplyLong)}

\* "#a1,0.92,qmd://memory/notes/trip.md\n"
StdoutOneHit ==
    <<"#","a","1",",","0",".","9","2",",","q","m","d",":","/","/","m","e","m","o","r","y","/",
      "n","o","t","e","s","/","t","r","i","p",".","m","d","\n">>

\* "#a1,0.92,qmd://memory/notes/trip.md\n#b2,0.5,qmd://memory/a,b.md\n"
StdoutTwoHits ==
    <<"#","a","1",",","0",".","9","2",",","q","m","d",":","/","/","m","e","m","o","r","y","/",
      "n","o","t","e","s","/","t","r","i","p",".","m","d","\n","#","b","2",",","0",".","5",",",
      "q","m","d",":","/","/","m","e","m","o","r","y","/","a",",","b",".","m","d","\n">>

\* "no results\n#c3,1"
StdoutNoise ==
    <<"n","o"," ","r","e","s","u","l","t","s","\n","#","c","3",",","1">>

Stdout(text) == [kind |-> "stdout", stdout |-> text]

\* what the keyword process may do
QmdOutcomes ==
  {[kind |-> "exec_error"], Stdout(<<>>), Stdout(<<"\n">>), Stdout(StdoutNoise),
   Stdout(StdoutOneHit), Stdout(StdoutTwoHits)}

\* "# Trip\nToronto   notes\n"
FileTrip ==
    <<"#"," ","T","r","i","p","\n","T","o","r","o","n","t","o"," "," "," ","n","o","t","e","s",
      "\n">>

\* "Toronto itinerary and " six times: 132 characters
FileLong == Repeat(<<"T","o","r","o","n","t","o"," ","i","t","i","n","e","r","a","r","y"," ","a","n","d"," ">>, 6)

\* what reading a hit's file may do
FileOutcomes == {[kind |-> "exec_error"], Stdout(FileTrip), Stdout(FileLong)}

\* what createMemorySearchTool may do: return a tool, return null, throw
CreateOutcomes == {"tool", "null", "throws"}

\* what appendFile may do
WriteOutcomes == {"ok", "error"}

\* "/home/u/.openclaw/workspace/memory/notes/trip.md"
PathTrip ==
    <<"/","h","o","m","e","/","u","/",".","o","p","e","n","c","l","a","w","/","w","o","r","k",
      "s","p","a","c","e","/","m","e","m","o","r","y","/","n","o","t","e","s","/","t","r","i",
      "p",".","m","d">>

\* "memory/plan.md"
PathPlan ==
    <<"m","e","m","o","r","y","/","p","l","a","n",".","m","d">>

\* "planning  notes " six times: 96 characters
SnippetLong == Repeat(<<"p","l","a","n","n","i","n","g"," "," ","n","o","t","e","s"," ">>, 6)

Score92 == [nan |-> FALSE, num |-> 92, den |-> 100]

Score4 == [nan |-> FALSE, num |-> 4, den |-> 10]

\* one entry of the semantic tool's results; wellFormed is false for an entry
\* without a path, snippet or score
SemanticHitTrip ==
  [wellFormed |-> TRUE, path |-> PathTrip, snippet |-> FileTrip, score |-> Score92]

SemanticHitPlan ==
  [wellFormed |-> TRUE, path |-> PathPlan, snippet |-> SnippetLong, score |-> Score4]

SemanticHitBroken ==
  [wellFormed |-> FALSE, path |-> <<>>, snippet |-> <<>>, score |-> NaN]

\* the value JSON.parse gives for the tool's text: null, or an object with
\* its disabled flag and its results (hasResults false when the field is absent)
JsonNull == [isNull |-> TRUE, disabled |-> FALSE, hasResults |-> FALSE, results |-> <<>>]

JsonObject(disabled, hasResults, results) ==
  [isNull |-> FALSE, disabled |-> disabled, hasResults |-> hasResults, results |-> results]

\* a text content: parses tells whether JSON.parse accepts it, value what it gives
TextContent(parses, value) == [kind |-> "text", parses |-> parses, value |-> value]

\* what memoryTool.execute may do: kind "throws" (rejects), "no_content"
\* (no result or no content), "not_text" (a first content that is no text),
\* or "text"
ExecuteReplies ==
  {[kind |-> "throws"], [kind |-> "no_content"], [kind |-> "not_text"],
   TextContent(FALSE, JsonNull), TextContent(TRUE, JsonNull),
   TextContent(TRUE, JsonObject(TRUE, TRUE, <<SemanticHitTrip>>)),
   TextContent(TRUE, JsonObject(FALSE, FALSE, <<>>)),
   TextContent(TRUE, JsonObject(FALSE, TRUE, <<>>)),
   TextContent(TRUE, JsonObject(FALSE, TRUE, <<SemanticHitTrip>>)),
   TextContent(TRUE, JsonObject(FALSE, TRUE, <<SemanticHitPlan, SemanticHitTrip>>)),
   TextContent(TRUE, JsonObject(FALSE, TRUE, <<SemanticHitTrip, SemanticHitBroken>>))}

\* the inputs the turns of a behaviour draw from
TurnEnv ==
  [prompts |-> RawPrompts, replies |-> ExtractorReplies, qmd |-> QmdOutcomes,
   files |-> FileOutcomes, creates |-> CreateOutcomes, execs |-> ExecuteReplies,
   writes |-> WriteOutcomes, silent |-> {{}}]

\* the most pieces a response of ReplyTexts is made of
MaxReplyPieces == 4

\* "T"  "r,"  "ip "  ","  " "
ReplyPieces == {<<"T">>, <<"r",",">>, <<"i","p"," ">>, <<",">>, <<" ">>}

\* every concatenation of at most MaxReplyPieces pieces
ReplyTexts ==
  UNION {{Join(pieces, <<>>) : pieces \in [1..n -> ReplyPieces]} : n \in 0..MaxReplyPieces}

\* turns over every extractor response of ReplyTexts
ExtractorEnv ==
  [prompts |-> {PromptTrip},
   replies |-> {Response(text) : text \in ReplyTexts} \cup {Response(ReplyToronto)},
   qmd |-> {Stdout(<<>>), Stdout(StdoutOneHit)},
   files |-> {Stdout(FileTrip)},
   creates |-> {"tool"},
   execs |-> {TextContent(TRUE, JsonObject(FALSE, TRUE, <<SemanticHitTrip>>))},
   writes |-> {"ok"},
   silent |-> {{}}]

\* the most pieces an output of StdoutTexts is made of
MaxStdoutPieces == 4

\* "#a1,0.92,"  "qmd://memory/"  "notes/trip.md"  ","  "\n"  "#b,1,x"
StdoutPieces ==
  {<<"#","a","1",",","0",".","9","2",",">>,
   LitQmdPrefix,
   <<"n","o","t","e","s","/","t","r","i","p",".","m","d">>,
   <<",">>, <<"\n">>,
   <<"#","b",",","1",",","x">>}

\* every concatenation of at most MaxStdoutPieces pieces
StdoutTexts ==
  UNION {{Join(pieces, <<>>) : pieces \in [1..n -> StdoutPieces]} : n \in 0..MaxStdoutPieces}

\* turns over every keyword output of StdoutTexts
KeywordEnv ==
  [prompts |-> {PromptTrip},
   replies |-> {Response(ReplyToronto)},
   qmd |-> {Stdout(text) : text \in StdoutTexts},
   files |-> {Stdout(FileTrip)},
   creates |-> {"tool"},
   execs |-> {TextContent(TRUE, JsonObject(FALSE, TRUE, <<SemanticHitTrip>>))},
   writes |-> {"ok"},
   silent |-> {{}}]

\* turns that other turns of the same plugin instance interleave with
InterleavedEnv ==
  [prompts |-> {PromptTrip, PromptPlan},
   replies |-> {[kind |-> "http_error"], Response(ReplyToronto)},
   qmd |-> {Stdout(<<>>), Stdout(StdoutOneHit)},
   files |-> {Stdout(FileTrip)},
   creates |-> CreateOutcomes,
   execs |-> {[kind |-> "no_content"],
              TextContent(TRUE, JsonObject(FALSE, TRUE, <<SemanticHitTrip>>))},
   writes |-> {"ok"},
   silent |-> {{}}]

\* the most hit lines an output of TopKEnv has
MaxStdoutLines == 6

\* "#h,0.5,f<i>" : the i-th hit line
HitLine(i) ==
  <<"#","h",",","0",".","5",",","f">> \o <<<<"1","2","3","4","5","6","7","8","9">>[i]>>

\* n hit lines, each ending with a newline
HitLines(n) == Join([i \in 1..n |-> HitLine(i) \o <<"\n">>], <<>>)

\* turns over keyword outputs of up to MaxStdoutLines hit lines
TopKEnv ==
  [prompts |-> {PromptTrip},
   replies |-> {Response(ReplyToronto)},
   qmd |-> {Stdout(HitLines(n)) : n \in 0..MaxStdoutLines},
   files |-> {Stdout(FileTrip)},
   creates |-> {"tool"},
   execs |-> {TextContent(TRUE, JsonObject(FALSE, TRUE, <<SemanticHitTrip>>))},
   writes |-> {"ok"},
   silent |-> {{}}]

\* turns over prompts of several words, with the extractor down or answering
StopWordEnv ==
  [prompts |-> WordPrompts,
   replies |-> {[kind |-> "http_error"], Response(ReplyToronto)},
   qmd |-> {Stdout(<<>>), Stdout(StdoutOneHit)},
   files |-> {Stdout(FileTrip)},
   creates |-> {"tool"},
   execs |-> {TextContent(TRUE, JsonObject(FALSE, TRUE, <<SemanticHitTrip>>))},
   writes |-> {"ok"},
   silent |-> {{}}]

\* turns in which the extractor endpoint, the keyword process or both may
\* stay silent
StallEnv ==
  [prompts |-> {PromptTrip},
   replies |-> {[kind |-> "http_error"], Response(ReplyToronto)},
   qmd |-> {Stdout(<<>>), Stdout(StdoutOneHit)},
   files |-> {Stdout(FileTrip)},
   creates |-> {"tool", "null"},
   execs |-> {[kind |-> "no_content"],
              TextContent(TRUE, JsonObject(FALSE, TRUE, <<SemanticHitTrip>>))},
   writes |-> WriteOutcomes,
   silent |-> SUBSET {"extractor", "qmd"}]

\* the most calls of createMemorySearchTool in a behaviour
MaxToolCreations == 2

\* ------------------------------------------------------- the state

VARIABLES
  variant,      \* which plugin file is registered: "hybrid" or "legacy"
  memoryTool,   \* register's memoryTool: the handle, kept across turns
  pc,           \* where the handler of the current turn is awaiting
  event,        \* the event of the current turn: raw prompt and session key
  prompt,       \* the cleaned prompt, NullStr before it is computed
  extractReply, \* what the extractor answered this turn
  llmEntities,  \* extractEntities' value, NullStr for null
  searchQuery,  \* the handler's searchQuery, NullStr before it is computed
  qmdQuery,     \* the query handed to searchWithQmd, NullStr when not called
  qmdOutcome,   \* what the keyword process did this turn
  results,      \* searchWithQmd's hits
  pending,      \* the hits whose getSnippet has not returned yet
  snippets,     \* the snippets read so far, by hit
  toolQuery,    \* the query handed to memoryTool.execute, NullStr when not called
  semanticHits, \* the results the semantic tool returned, once accepted
  turnLog,      \* the records appended to LOG_PATH during this turn
  calls,        \* how many times each collaborator was called this turn
  faults,       \* the collaborators that failed this turn
  toolReply,    \* what memoryTool.execute answered this turn
  readOrder,    \* the hits in the order in which their getSnippet returned
  silent,       \* the collaborators that never respond during this turn
  toolCreations,\* how often createMemorySearchTool was called since register
  result        \* what the handler returned

vars == <<variant, memoryTool, pc, event, prompt, extractReply, llmEntities,
          searchQuery, qmdQuery, qmdOutcome, results, pending, snippets,
          toolQuery, semanticHits, turnLog, calls, faults, toolReply, readOrder,
          silent, toolCreations, result>>

\* let memoryTool = null
NoTool == [created |-> FALSE, sessionKey |-> "none"]

Tool(key) == [created |-> TRUE, sessionKey |-> key]

NoReply == [kind |-> "none"]

Pending == [kind |-> "pending"]

\* return;  (and falling off the end of the handler)
Undefined == [kind |-> "undefined"]

\* a rejection of the handler's promise
Thrown == [kind |-> "thrown"]

\* return { prependContext: block }
Hint(block) == [kind |-> "hint", prependContext |-> block]

NoCalls == [extract |-> 0, qmd |-> 0, log |-> 0, create |-> 0, execute |-> 0, snippet |-> 0]

Init ==
  /\ variant \in {"hybrid", "legacy"}
  /\ memoryTool = NoTool
  /\ pc = "idle"
  /\ event = [prompt |-> NullStr, sessionKey |-> "none"]
  /\ prompt = NullStr
  /\ extractReply = NoReply
  /\ llmEntities = NullStr
  /\ searchQuery = NullStr
  /\ qmdQuery = NullStr
  /\ qmdOutcome = NoReply
  /\ results = <<>>
  /\ pending = {}
  /\ snippets = <<>>
  /\ toolQuery = NullStr
  /\ semanticHits = <<>>
  /\ turnLog = <<>>
  /\ calls = NoCalls
  /\ faults = {}
  /\ toolReply = NoReply
  /\ readOrder = <<>>
  /\ silent = {}
  /\ toolCreations = 0
  /\ result = Pending

\* the handler returns value
Return(value) ==
  /\ pc' = "done"
  /\ result' = value

\* ------------------------------------------------ pieces of the handler

\* ExtractorUnavailable returning nothing instead of the diagnostic block
ExtractorUnavailableSilent == Undefined

\* the result when extractEntities gave null (hybrid variant)
ExtractorUnavailable == Hint(DisabledBlock)

\* NeedsFallback going on to the previews whatever the keyword search found
NeedsFallbackNever(hits) == FALSE

\* NeedsFallback falling back whatever the keyword search found
NeedsFallbackAlways(hits) == TRUE

\* results.length === 0 : the keyword search found nothing, fall back
NeedsFallback(hits) == Len(hits) = 0

\* SemanticQuery passing the extracted terms
SemanticQueryTerms(cleaned, query) == query

\* the query given to the semantic tool by the hybrid variant
SemanticQuery(cleaned, query) == Slice0(cleaned, PromptSliceChars)

\* the record logged after the keyword search (timestamps and timings left out)
SearchLogEntry(cleaned, entities, query, hits) ==
  [prompt      |-> Slice0(cleaned, PromptSliceChars),
   entities    |-> entities,
   searchQuery |-> query,
   results     |-> [k \in 1..Len(hits) |-> [path |-> hits[k].path, score |-> hits[k].score]]]

\* " [GEMINI FALLBACK]"
LitFallbackMark ==
  <<" ","[","G","E","M","I","N","I"," ","F","A","L","L","B","A","C","K","]">>

\* the record logged after a semantic search that found something
FallbackLogEntry(cleaned, entities, query, hits) ==
  [prompt      |-> Slice0(cleaned, PromptSliceChars),
   entities    |-> entities,
   searchQuery |-> query \o LitFallbackMark,
   results     |-> [k \in 1..Len(hits) |->
                     [path |-> StripWorkspace(hits[k].path), score |-> hits[k].score]]]

\* LogSearch without its catch: a failed write rejects
LogSearchUncaught(log, entry, write) ==
  IF write = "ok" THEN [threw |-> FALSE, value |-> Append(log, entry)]
  ELSE [threw |-> TRUE, value |-> log]

\* logSearch: the log after appending entry; a failed write is caught inside
LogSearch(log, entry, write) ==
  IF write = "ok" THEN [threw |-> FALSE, value |-> Append(log, entry)]
  ELSE [threw |-> FALSE, value |-> log]

\* CreateOrReuse giving an existing handle the session key of the turn
CreateOrReuseRekeyed(tool, how, key) ==
  CASE how = "reuse"  -> [tool |-> Tool(key), called |-> FALSE, threw |-> FALSE]
    [] how = "tool"   -> [tool |-> Tool(key), called |-> TRUE,  threw |-> FALSE]
    [] how = "null"   -> [tool |-> NoTool,    called |-> TRUE,  threw |-> FALSE]
    [] how = "throws" -> [tool |-> NoTool,    called |-> TRUE,  threw |-> TRUE]

\* if (!memoryTool) memoryTool = createMemorySearchTool(...) : the handle
\* afterwards, whether the factory was called and whether it threw.
\* how is "reuse" when a handle exists, else what the factory does.
CreateOrReuse(tool, how, key) ==
  CASE how = "reuse"  -> [tool |-> tool,      called |-> FALSE, threw |-> FALSE]
    [] how = "tool"   -> [tool |-> Tool(key), called |-> TRUE,  threw |-> FALSE]
    [] how = "null"   -> [tool |-> NoTool,    called |-> TRUE,  threw |-> FALSE]
    [] how = "throws" -> [tool |-> NoTool,    called |-> TRUE,  threw |-> TRUE]

\* CreateChoices without the check for an existing handle
CreateChoicesAlways(tool, creates) == creates

CreateChoices(tool, creates) == IF tool.created THEN {"reuse"} ELSE creates

\* ExecuteResult without the test of parsed.disabled
ExecuteResultIgnoringDisabled(reply) ==
  IF reply.kind = "throws" THEN [threw |-> TRUE, hits |-> <<>>]
  ELSE IF reply.kind # "text" THEN [threw |-> FALSE, hits |-> <<>>]
  ELSE IF ~reply.parses THEN [threw |-> FALSE, hits |-> <<>>]
  ELSE IF reply.value.isNull THEN [threw |-> TRUE, hits |-> <<>>]
  ELSE IF ~reply.value.hasResults \/ Len(reply.value.results) = 0
       THEN [threw |-> FALSE, hits |-> <<>>]
  ELSE IF \E k \in 1..Len(reply.value.results) : ~reply.value.results[k].wellFormed
       THEN [threw |-> TRUE, hits |-> <<>>]
  ELSE [threw |-> FALSE, hits |-> reply.value.results]

\* what the handler makes of the tool's reply: threw when execute rejected or
\* reading the reply raised a TypeError (a null JSON value, an entry without
\* path, snippet or score), else the accepted results, none when the reply
\* has no text, does not parse, is disabled or lists nothing
ExecuteResult(reply) ==
  IF reply.kind = "throws" THEN [threw |-> TRUE, hits |-> <<>>]
  ELSE IF reply.kind # "text" THEN [threw |-> FALSE, hits |-> <<>>]
  ELSE IF ~reply.parses THEN [threw |-> FALSE, hits |-> <<>>]
  ELSE IF reply.value.isNull THEN [threw |-> TRUE, hits |-> <<>>]
  ELSE IF reply.value.disabled \/ ~reply.value.hasResults \/ Len(reply.value.results) = 0
       THEN [threw |-> FALSE, hits |-> <<>>]
  ELSE IF \E k \in 1..Len(reply.value.results) : ~reply.value.results[k].wellFormed
       THEN [threw |-> TRUE, hits |-> <<>>]
  ELSE [threw |-> FALSE, hits |-> reply.value.results]

\* hintsWithSnippets built in the order the reads completed
HintsAsCompleted(hits, read, order) ==
  [i \in 1..Len(hits) |-> KeywordHint(hits[order[i]], read[order[i]])]

\* hintsWithSnippets: Promise.all gives the lines in the order of the hits,
\* whatever the order in which the reads completed
HintsWithSnippets(hits, read, order) ==
  [i \in 1..Len(hits) |-> KeywordHint(hits[i], read[i])]

Fault(failed, name) == IF failed THEN {name} ELSE {}

\* ------------------------------------------------------ the handler
(* One action for each stretch of the handler between two awaits: the      *)
(* action of a collaborator's return takes the handler up to its next      *)
(* call or to its return.                                                   *)

\* The host fires before_agent_start: the handler checks the raw prompt,
\* cleans it and (hybrid variant) checks the cleaned prompt, then calls the
\* extractor. The legacy variant calls the extractor before those checks.
\* Which collaborators will stay silent during the turn is fixed here. No
\* turn starts once createMemorySearchTool was called MaxToolCreations times.
BeforeAgentStart(env) ==
  /\ pc \in {"idle", "done"}
  /\ toolCreations < MaxToolCreations
  /\ silent' \in env.silent
  /\ \E raw \in env.prompts, key \in SessionKeys :
       LET short   == RawTooShort(raw)
           cleaned == IF short THEN NullStr ELSE CleanedPrompts[raw]
           stop    == short \/ (variant = "hybrid" /\ Rejected(cleaned))
       IN /\ event' = [prompt |-> raw, sessionKey |-> key]
          /\ prompt' = cleaned
          /\ pc' = IF stop THEN "done" ELSE "extract"
          /\ result' = IF stop THEN Undefined ELSE Pending
          /\ calls' = [NoCalls EXCEPT !.extract = IF stop THEN 0 ELSE 1]
  /\ extractReply' = NoReply
  /\ llmEntities' = NullStr
  /\ searchQuery' = NullStr
  /\ qmdQuery' = NullStr
  /\ qmdOutcome' = NoReply
  /\ results' = <<>>
  /\ pending' = {}
  /\ snippets' = <<>>
  /\ toolQuery' = NullStr
  /\ semanticHits' = <<>>
  /\ turnLog' = <<>>
  /\ faults' = {}
  /\ toolReply' = NoReply
  /\ readOrder' = <<>>
  /\ UNCHANGED <<variant, memoryTool, toolCreations>>

\* HybridSearch without the test of the query's length
HybridSearchUnchecked(entities) ==
  /\ UNCHANGED <<memoryTool, toolQuery, toolCreations>>
  /\ IF entities = NullStr
     THEN /\ Return(ExtractorUnavailable)
          /\ UNCHANGED <<searchQuery, qmdQuery, calls>>
     ELSE LET q == SearchQuery(entities)
          IN /\ searchQuery' = q
             /\ pc' = "qmd"
             /\ qmdQuery' = q
             /\ calls' = [calls EXCEPT !.qmd = @ + 1]
             /\ UNCHANGED result

\* hybrid variant, after extractEntities: the diagnostic block when there are
\* no entities, else the query from the entities and the keyword search
HybridSearch(entities) ==
  /\ UNCHANGED <<memoryTool, toolQuery, toolCreations>>
  /\ IF entities = NullStr
     THEN /\ Return(ExtractorUnavailable)
          /\ UNCHANGED <<searchQuery, qmdQuery, calls>>
     ELSE LET q == SearchQuery(entities)
          IN /\ searchQuery' = q
             /\ IF Len(q) < MinQueryLength
                THEN /\ Return(Undefined)
                     /\ UNCHANGED <<qmdQuery, calls>>
                ELSE /\ pc' = "qmd"
                     /\ qmdQuery' = q
                     /\ calls' = [calls EXCEPT !.qmd = @ + 1]
                     /\ UNCHANGED result

\* legacy variant, after extractEntities: the query from the entities or from
\* the stop-word fallback, the checks of the cleaned prompt, the tool handle,
\* and the search through it
LegacySearch(entities, creates) ==
  LET q == IF entities # NullStr THEN LegacySearchQuery(entities)
           ELSE StopWordQuery(prompt)
  IN /\ searchQuery' = q
     /\ UNCHANGED qmdQuery
     /\ IF Rejected(prompt)
        THEN /\ Return(Undefined)
             /\ UNCHANGED <<memoryTool, toolQuery, calls, toolCreations>>
        ELSE \E how \in CreateChoices(memoryTool, creates) :
               LET c == CreateOrReuse(memoryTool, how, event.sessionKey)
                   n == IF c.called THEN 1 ELSE 0
               IN /\ memoryTool' = c.tool
                  /\ toolCreations' = toolCreations + n
                  /\ IF c.threw \/ ~c.tool.created \/ Len(q) < LegacyMinQueryLength
                     THEN /\ Return(Undefined)
                          /\ calls' = [calls EXCEPT !.create = @ + n]
                          /\ UNCHANGED toolQuery
                     ELSE /\ pc' = "execute"
                          /\ toolQuery' = q
                          /\ calls' = [calls EXCEPT !.create = @ + n, !.execute = @ + 1]
                          /\ UNCHANGED result

\* extractEntities returns. The fetch carries no timeout: with a silent
\* endpoint it never settles and the handler stays at its await.
ExtractorReturns(env) ==
  /\ pc = "extract"
  /\ "extractor" \notin silent
  /\ \E reply \in env.replies :
       LET r == ExtractEntities(reply, IF variant = "hybrid" THEN MaxEntitiesLength
                                       ELSE LegacyMaxEntitiesLength)
       IN /\ extractReply' = reply
          /\ llmEntities' = r.value
          /\ faults' = faults \cup Fault(reply.kind \in {"fetch_error", "http_error", "bad_json"},
                                         "extractor")
          /\ IF r.threw
             THEN /\ Return(Thrown)
                  /\ UNCHANGED <<memoryTool, searchQuery, qmdQuery, toolQuery, calls,
                                 toolCreations>>
             ELSE IF variant = "hybrid" THEN HybridSearch(r.value)
             ELSE LegacySearch(r.value, env.creates)
  /\ UNCHANGED <<variant, event, prompt, qmdOutcome, results, pending, snippets,
                 semanticHits, turnLog, toolReply, readOrder, silent>>

\* QmdReturns with one more attempt after a failed process
QmdReturnsRetrying(env) ==
  /\ pc = "qmd"
  /\ \E o \in (IF "qmd" \in silent THEN {[kind |-> "exec_error"]} ELSE env.qmd) :
       LET r == SearchWithQmd(o)
       IN /\ qmdOutcome' = o
          /\ faults' = faults \cup Fault(o.kind = "exec_error", "qmd")
          /\ IF o.kind = "exec_error" /\ calls.qmd < 2
             THEN /\ calls' = [calls EXCEPT !.qmd = @ + 1]
                  /\ UNCHANGED <<pc, result, results>>
             ELSE IF r.threw
             THEN /\ Return(Undefined)
                  /\ UNCHANGED <<results, calls>>
             ELSE /\ results' = r.value
                  /\ pc' = "log"
                  /\ calls' = [calls EXCEPT !.log = @ + 1]
                  /\ UNCHANGED result
  /\ UNCHANGED <<variant, memoryTool, event, prompt, extractReply, llmEntities,
                 searchQuery, qmdQuery, pending, snippets, toolQuery, semanticHits,
                 turnLog, toolReply, readOrder, silent, toolCreations>>

\* searchWithQmd returns; the handler calls logSearch. A silent process is
\* killed at the 5 s timeout, which rejects the exec.
QmdReturns(env) ==
  /\ pc = "qmd"
  /\ \E o \in (IF "qmd" \in silent THEN {[kind |-> "exec_error"]} ELSE env.qmd) :
       LET r == SearchWithQmd(o)
       IN /\ qmdOutcome' = o
          /\ faults' = faults \cup Fault(o.kind = "exec_error", "qmd")
          /\ IF r.threw
             THEN /\ Return(Undefined)
                  /\ UNCHANGED <<results, calls>>
             ELSE /\ results' = r.value
                  /\ pc' = "log"
                  /\ calls' = [calls EXCEPT !.log = @ + 1]
                  /\ UNCHANGED result
  /\ UNCHANGED <<variant, memoryTool, event, prompt, extractReply, llmEntities,
                 searchQuery, qmdQuery, pending, snippets, toolQuery, semanticHits,
                 turnLog, toolReply, readOrder, silent, toolCreations>>

\* no keyword hit: the tool handle is created if there is none, and the
\* semantic search is called with the cleaned prompt
Fallback(creates) ==
  /\ \E how \in CreateChoices(memoryTool, creates) :
       LET c == CreateOrReuse(memoryTool, how, event.sessionKey)
           n == IF c.called THEN 1 ELSE 0
       IN /\ memoryTool' = c.tool
          /\ toolCreations' = toolCreations + n
          /\ IF c.threw \/ ~c.tool.created
             THEN /\ Return(Undefined)
                  /\ calls' = [calls EXCEPT !.create = @ + n]
                  /\ UNCHANGED toolQuery
             ELSE /\ pc' = "execute"
                  /\ toolQuery' = SemanticQuery(prompt, searchQuery)
                  /\ calls' = [calls EXCEPT !.create = @ + n, !.execute = @ + 1]
                  /\ UNCHANGED result
  /\ UNCHANGED <<pending, snippets>>

\* keyword hits: getSnippet is called for every hit at once (Promise.all);
\* over no hit at all Promise.all resolves at once and the block has no line
StartSnippets ==
  /\ pending' = 1..Len(results)
  /\ snippets' = [k \in 1..Len(results) |-> <<>>]
  /\ calls' = [calls EXCEPT !.snippet = @ + Len(results)]
  /\ IF Len(results) = 0
     THEN Return(Hint(HintBlock(<<>>)))
     ELSE pc' = "snippets" /\ UNCHANGED result
  /\ UNCHANGED <<memoryTool, toolQuery, toolCreations>>

\* logSearch returns after the keyword search
LogSearchReturns(env) ==
  /\ pc = "log"
  /\ \E w \in env.writes :
       LET l == LogSearch(turnLog, SearchLogEntry(prompt, llmEntities, searchQuery, results), w)
       IN /\ turnLog' = l.value
          /\ faults' = faults \cup Fault(w = "error", "log")
          /\ IF l.threw
             THEN /\ Return(Undefined)
                  /\ UNCHANGED <<memoryTool, toolQuery, calls, pending, snippets,
                                 toolCreations>>
             ELSE IF NeedsFallback(results) THEN Fallback(env.creates)
             ELSE StartSnippets
  /\ UNCHANGED <<variant, event, prompt, extractReply, llmEntities, searchQuery,
                 qmdQuery, qmdOutcome, results, semanticHits, toolReply, readOrder,
                 silent>>

\* one getSnippet returns, in any order; the handler returns the block once
\* all of them have
SnippetReturns(env) ==
  /\ pc = "snippets"
  /\ \E k \in pending, o \in env.files :
       LET g    == GetSnippet(o, SnippetMaxChars)
           read == [snippets EXCEPT ![k] = g.value]
       IN /\ faults' = faults \cup Fault(o.kind = "exec_error", "snippet")
          /\ IF g.threw
             THEN /\ Return(Undefined)
                  /\ UNCHANGED <<snippets, pending, readOrder>>
             ELSE /\ snippets' = read
                  /\ pending' = pending \ {k}
                  /\ readOrder' = Append(readOrder, k)
                  /\ IF pending = {k}
                     THEN Return(Hint(HintBlock(
                            HintsWithSnippets(results, read, Append(readOrder, k)))))
                     ELSE UNCHANGED <<pc, result>>
  /\ UNCHANGED <<variant, memoryTool, event, prompt, extractReply, llmEntities,
                 searchQuery, qmdQuery, qmdOutcome, results, toolQuery, semanticHits,
                 turnLog, calls, toolReply, silent, toolCreations>>

\* memoryTool.execute returns: nothing usable ends the turn; hits are logged
\* (hybrid variant) or returned at once (legacy variant)
ExecuteReturns(env) ==
  /\ pc = "execute"
  /\ \E reply \in env.execs :
       LET x == ExecuteResult(reply)
       IN /\ toolReply' = reply
          /\ faults' = faults \cup Fault(x.threw, "execute")
          /\ IF x.threw \/ Len(x.hits) = 0
             THEN /\ Return(Undefined)
                  /\ UNCHANGED <<semanticHits, calls>>
             ELSE /\ semanticHits' = x.hits
                  /\ IF variant = "hybrid"
                     THEN /\ pc' = "fallback_log"
                          /\ calls' = [calls EXCEPT !.log = @ + 1]
                          /\ UNCHANGED result
                     ELSE /\ Return(Hint(HintBlock(
                                [k \in 1..Len(x.hits) |-> LegacyHint(x.hits[k])])))
                          /\ UNCHANGED calls
  /\ UNCHANGED <<variant, memoryTool, event, prompt, extractReply, llmEntities,
                 searchQuery, qmdQuery, qmdOutcome, results, pending, snippets,
                 toolQuery, turnLog, readOrder, silent, toolCreations>>

\* logSearch returns after the semantic search; the handler returns the block
FallbackLogReturns(env) ==
  /\ pc = "fallback_log"
  /\ \E w \in env.writes :
       LET l == LogSearch(turnLog,
                          FallbackLogEntry(prompt, llmEntities, searchQuery, semanticHits), w)
       IN /\ turnLog' = l.value
          /\ faults' = faults \cup Fault(w = "error", "log")
          /\ IF l.threw THEN Return(Undefined)
             ELSE Return(Hint(HintBlock(
                    [k \in 1..Len(semanticHits) |-> GeminiHint(semanticHits[k])])))
  /\ UNCHANGED <<variant, memoryTool, event, prompt, extractReply, llmEntities,
                 searchQuery, qmdQuery, qmdOutcome, results, pending, snippets,
                 toolQuery, semanticHits, calls, toolReply, readOrder, silent,
                 toolCreations>>

\* Another turn of the same plugin instance, running between the awaits of
\* this one, goes through its own "if (!memoryTool) memoryTool = create..."
\* block: a synchronous stretch, so one step. The handle is the only state
\* the turns share.
OtherTurnCreates(env) ==
  /\ toolCreations < MaxToolCreations
  /\ \E key \in SessionKeys, how \in CreateChoices(memoryTool, env.creates) :
       LET c == CreateOrReuse(memoryTool, how, key)
       IN /\ c.called
          /\ memoryTool' = c.tool
          /\ toolCreations' = toolCreations + 1
  /\ UNCHANGED <<variant, pc, event, prompt, extractReply, llmEntities, searchQuery,
                 qmdQuery, qmdOutcome, results, pending, snippets, toolQuery,
                 semanticHits, turnLog, calls, faults, toolReply, readOrder, silent,
                 result>>

Next(env) ==
  \/ BeforeAgentStart(env)
  \/ ExtractorReturns(env)
  \/ QmdReturns(env)
  \/ LogSearchReturns(env)
  \/ SnippetReturns(env)
  \/ ExecuteReturns(env)
  \/ FallbackLogReturns(env)

\* turns over the hand-picked inputs
Spec == Init /\ [][Next(TurnEnv)]_vars

\* turns over every short extractor response
SpecExtractor == Init /\ [][Next(ExtractorEnv)]_vars

\* turns over every short keyword output
SpecKeyword == Init /\ [][Next(KeywordEnv)]_vars

\* register of the hybrid plugin file
InitHybrid == Init /\ variant = "hybrid"

\* turns over prompts of several words
SpecStopWords == Init /\ [][Next(StopWordEnv)]_vars

\* turns over keyword outputs of several hit lines
SpecTopK == Init /\ [][Next(TopKEnv)]_vars

\* a collaborator answers and the handler goes on from its await
CollaboratorReturns(env) ==
  \/ ExtractorReturns(env)
  \/ QmdReturns(env)
  \/ LogSearchReturns(env)
  \/ SnippetReturns(env)
  \/ ExecuteReturns(env)
  \/ FallbackLogReturns(env)

\* turns of the hybrid variant with silent collaborators; every collaborator
\* that is not silent answers in the end (the keyword process at the latest
\* when its timeout kills it), and the handler goes on when it does
SpecStall ==
  InitHybrid /\ [][Next(StallEnv)]_vars /\ WF_vars(CollaboratorReturns(StallEnv))

NextInterleaved(env) ==
  \/ Next(env)
  \/ OtherTurnCreates(env)

\* turns interleaved with the handle creation of other turns
SpecInterleaved == Init /\ [][NextInterleaved(InterleavedEnv)]_vars

\* ----------------------------------------------------------- claims

\* the turn is over and the handler has returned
TurnDone == pc = "done"

\* no collaborator was called and nothing was logged during the turn
NoBackendCall ==
  /\ calls = NoCalls
  /\ qmdQuery = NullStr
  /\ toolQuery = NullStr
  /\ turnLog = <<>>

\* C1: a turn whose raw prompt is absent, empty or shorter than 10 characters
\* returns nothing and calls no backend: no extractor request, no keyword
\* search, no semantic search, no preview read, no audit-log append.
C1_ShortPromptSilent ==
  (pc # "idle" /\ (event.prompt = NullStr \/ Len(event.prompt) < 10))
    => (TurnDone /\ result = Undefined /\ NoBackendCall)

C1_Witness ==
  /\ TurnDone
  /\ event.prompt = PromptShortQuestion
  /\ result = Undefined

\* the extractor gave nothing usable: transport failure, non-success status,
\* unreadable body, no response field, an empty response or one of 300
\* characters or more
ExtractorWasUnavailable ==
  \/ extractReply.kind \in {"fetch_error", "http_error", "bad_json", "no_response"}
  \/ /\ extractReply.kind = "response"
     /\ \/ \A k \in 1..Len(extractReply.response) : IsWs(extractReply.response[k])
        \/ Len(Trim(extractReply.response)) >= 300

\* C2: in the variant without a deterministic fallback, an eligible turn whose
\* extractor is unavailable returns exactly the "recall disabled" block: not
\* nothing, not a thrown error.
C2_UnavailableGivesDisabledBlock ==
  (variant = "hybrid" /\ ExtractorWasUnavailable)
    => (TurnDone /\ result = Hint(DisabledBlock))

C2_Witness ==
  /\ variant = "hybrid"
  /\ extractReply.kind = "http_error"
  /\ result = Hint(DisabledBlock)

\* the keyword process ran and its output held no hit
KeywordReturnedNoHit == qmdOutcome.kind = "stdout" /\ Len(results) = 0

\* q is the first 200 characters of the cleaned prompt
IsPromptPrefix200(q) ==
  /\ Len(q) = (IF Len(prompt) < 200 THEN Len(prompt) ELSE 200)
  /\ \A k \in 1..Len(q) : q[k] = prompt[k]

\* C3 as claimed: whenever the keyword backend returns zero hits, the semantic
\* backend is invoked, with the cleaned prompt cut to 200 characters.
C3_FallbackAlwaysInvoked ==
  (variant = "hybrid" /\ TurnDone /\ KeywordReturnedNoHit)
    => (calls.execute = 1 /\ IsPromptPrefix200(toolQuery))

\* C3 as amended: whenever the keyword backend returns zero hits, the handler
\* obtains the semantic tool handle, creating it when there is none, and with
\* a handle invokes the semantic backend once with the cleaned prompt cut to
\* 200 characters, never with the term query; without one (the factory gave
\* null or threw) the backend is not invoked and the turn returns nothing.
C3_FallbackUsesCleanedPrompt ==
  /\ (variant = "hybrid" /\ toolQuery # NullStr) => IsPromptPrefix200(toolQuery)
  /\ (variant = "hybrid" /\ TurnDone /\ KeywordReturnedNoHit)
       => IF memoryTool.created
          THEN calls.execute = 1 /\ IsPromptPrefix200(toolQuery)
          ELSE calls.create = 1 /\ calls.execute = 0 /\ result = Undefined

C3_Witness ==
  /\ variant = "hybrid"
  /\ TurnDone
  /\ KeywordReturnedNoHit
  /\ calls.execute = 1
  /\ Len(prompt) > 200
  /\ Len(toolQuery) = 200
  /\ toolQuery # searchQuery

\* C4: whenever the keyword backend returns at least one hit, the semantic
\* backend is neither created nor executed during the turn, and the returned
\* block has one line per keyword hit, for that hit.
C4_HitsSkipSemantic ==
  Len(results) >= 1
    => /\ calls.create = 0
       /\ calls.execute = 0
       /\ toolQuery = NullStr
       /\ semanticHits = <<>>
       /\ result.kind = "hint"
            => /\ Len(result.prependContext.lines) = Len(results)
               /\ \A k \in 1..Len(results) :
                    /\ result.prependContext.lines[k].path = results[k].path
                    /\ result.prependContext.lines[k].score = results[k].score

C4_Witness ==
  /\ TurnDone
  /\ Len(results) = 2
  /\ result.kind = "hint"
  /\ Len(result.prependContext.lines) = 2

\* the turn ended with hits of the semantic fallback
EndedWithSemanticHits == result.kind = "hint" /\ Len(results) = 0 /\ Len(semanticHits) > 0

C6_NeverThrows ==
  /\ result.kind \in {"pending", "undefined", "hint"}
  /\ TurnDone => result.kind \in {"undefined", "hint"}

C6_Witness ==
  /\ TurnDone
  /\ {"qmd", "log", "execute"} \subseteq faults
  /\ result = Undefined

\* ok, okay, sure, thanks, thank you, yes, no, yep, nope, got it, sounds good,
\* hi, hello, hey, morning, evening
AcknowledgementTexts == {
  <<"o","k">>, <<"o","k","a","y">>, <<"s","u","r","e">>, <<"t","h","a","n","k","s">>,
  <<"t","h","a","n","k"," ","y","o","u">>, <<"y","e","s">>, <<"n","o">>, <<"y","e","p">>,
  <<"n","o","p","e">>, <<"g","o","t"," ","i","t">>,
  <<"s","o","u","n","d","s"," ","g","o","o","d">>, <<"h","i">>, <<"h","e","l","l","o">>,
  <<"h","e","y">>, <<"m","o","r","n","i","n","g">>, <<"e","v","e","n","i","n","g">> }

\* the text is an acknowledgement or greeting, in any letter case, with or
\* without one trailing period
IsAcknowledgement(text) ==
  \E w \in AcknowledgementTexts :
    ToLowerCase(text) = w \/ ToLowerCase(text) = w \o <<".">>

\* C7: a turn whose cleaned text is an acknowledgement or greeting produces
\* no hint.
C7_AcknowledgementsSilent ==
  (TurnDone /\ prompt # NullStr /\ IsAcknowledgement(prompt)) => result = Undefined

C7_Witness ==
  /\ TurnDone
  /\ event.prompt = PromptStampedThanks
  /\ prompt = <<"T","h","a","n","k","s",".">>
  /\ result = Undefined

\* a character that separates terms: a comma or white space
IsSeparator(c) == c = "," \/ IsWs(c)

\* the positions where a term of s starts, in order
TermStarts(s) ==
  SelectSeq(Positions(s),
            LAMBDA i : ~IsSeparator(s[i]) /\ (i = 1 \/ IsSeparator(s[i-1])))

\* the term of s starting at i, lower-cased
TermAt(s, i) ==
  LET stop == CHOOSE j \in i..Len(s) :
                /\ \A k \in i..j : ~IsSeparator(s[k])
                /\ (j = Len(s) \/ IsSeparator(s[j+1]))
  IN ToLowerCase(SubSeq(s, i, stop))

\* the first three terms of s joined by single spaces
CappedQuery(s) ==
  LET at == TermStarts(s)
      n  == Len(at)
  IN IF n = 0 THEN <<>>
     ELSE TermAt(s, at[1])
          \o (IF n >= 2 THEN <<" ">> \o TermAt(s, at[2]) ELSE <<>>)
          \o (IF n >= 3 THEN <<" ">> \o TermAt(s, at[3]) ELSE <<>>)

\* the query handed to the first search backend, NullStr when none was
IssuedQuery == IF variant = "hybrid" THEN qmdQuery ELSE toolQuery

\* C8 as claimed: for every accepted extractor response, the query issued to
\* the first search backend is the response lower-cased, split at commas and
\* white space, capped to its first three terms, joined by single spaces.
C8_QueryIsCappedTerms ==
  (llmEntities # NullStr /\ IssuedQuery # NullStr)
    => IssuedQuery = CappedQuery(llmEntities)

\* C8 as amended: in the keyword-search variant the query computed from an
\* accepted response, and issued to the keyword backend when it has two
\* characters or more, is the response lower-cased, split at commas and white
\* space, capped to its first three terms, joined by single spaces; in the
\* legacy variant the query issued to the memory tool is the response
\* lower-cased with each comma replaced by a space, neither collapsed nor
\* capped.
C8_QueryPerVariant ==
  llmEntities # NullStr
    => /\ variant = "hybrid"
            => /\ searchQuery = CappedQuery(llmEntities)
               /\ qmdQuery = (IF Len(searchQuery) >= 2 THEN searchQuery ELSE NullStr)
       /\ (variant = "legacy" /\ toolQuery # NullStr)
            => /\ Len(toolQuery) = Len(llmEntities)
               /\ \A k \in 1..Len(llmEntities) :
                    toolQuery[k] = (IF llmEntities[k] = "," THEN " "
                                    ELSE ToLowerChar(llmEntities[k]))

C8_Witness ==
  /\ variant = "hybrid"
  /\ llmEntities # NullStr
  /\ llmEntities = <<"r",",","r",",","r",",","T">>
  /\ Len(TermStarts(llmEntities)) = 4
  /\ qmdQuery = <<"r"," ","r"," ","r">>

\* the lines of text: for each, where it starts
LineStarts(text) ==
  SelectSeq(<<1>> \o [i \in 1..Len(text) |-> i + 1],
            LAMBDA a : a = 1 \/ text[a-1] = "\n")

\* the position after the line of text starting at a
LineEnd(text, a) ==
  CHOOSE j \in a..(Len(text)+1) :
    /\ \A k \in a..(j-1) : text[k] # "\n"
    /\ (j = Len(text) + 1 \/ text[j] = "\n")

\* the positions of the commas of the line of text starting at a, in order
LineCommas(text, a) ==
  SelectSeq([i \in 1..(LineEnd(text, a) - a) |-> a + i - 1], LAMBDA k : text[k] = ",")

\* the uri with a leading qmd://memory/ rewritten to memory/
RewrittenUri(uri) ==
  IF Len(uri) >= 13 /\ SubSeq(uri, 1, 13) = LitQmdPrefix
  THEN <<"m","e","m","o","r","y","/">> \o SubSeq(uri, 14, Len(uri))
  ELSE uri

\* C9: searchWithQmd turns each line hash,score,uri of the (trimmed) output
\* into one hit: its score the number in the second field, its path the rest
\* of the line after the second comma, further commas included, with a leading
\* qmd://memory/ rewritten to memory/; a line with fewer than three fields
\* gives no hit, and the hits are in line order.
C9_HitsAreParsedLines ==
  qmdOutcome.kind = "stdout"
    => LET text   == Trim(qmdOutcome.stdout)
           starts == SelectSeq(LineStarts(text), LAMBDA a : Len(LineCommas(text, a)) >= 2)
       IN /\ Len(results) = Len(starts)
          /\ \A k \in 1..Len(starts) :
               LET a      == starts[k]
                   commas == LineCommas(text, a)
                   field  == SubSeq(text, commas[1] + 1, commas[2] - 1)
               IN /\ results[k].hash = SubSeq(text, a, commas[1] - 1)
                  /\ results[k].score = ParseFloat(field)
                  /\ field = <<"0",".","9","2">> => results[k].score = Score92
                  /\ field = <<"1">> => results[k].score = [nan |-> FALSE, num |-> 1, den |-> 1]
                  /\ results[k].path
                       = RewrittenUri(SubSeq(text, commas[2] + 1, LineEnd(text, a) - 1))

C9_Witness ==
  /\ qmdOutcome = Stdout(<<"#","a","1",",","0",".","9","2",",","q","m","d",":","/","/",
                           "m","e","m","o","r","y","/","n","o","t","e","s","/","t","r",
                           "i","p",".","m","d">>)
  /\ Len(results) = 1
  /\ results[1].hash = <<"#","a","1">>
  /\ results[1].score = Score92
  /\ results[1].path = <<"m","e","m","o","r","y","/","n","o","t","e","s","/","t","r",
                         "i","p",".","m","d">>

\* C11 as claimed: over any sequence and interleaving of turns of one plugin
\* instance, createMemorySearchTool is called at most once.
C11_CreatedAtMostOnce == toolCreations <= 1

\* C11 as amended: once createMemorySearchTool has returned a handle it is
\* never called again, the handle never changes, and every search through
\* the tool goes through that handle; as long as it returns null or throws,
\* it is called again by each turn that needs the tool.
C11_HandleKeptOnceCreated ==
  /\ [](memoryTool.created => toolCreations >= 1)
  /\ []((pc = "execute" \/ toolQuery # NullStr) => memoryTool.created)
  /\ [][memoryTool.created
          => memoryTool' = memoryTool /\ toolCreations' = toolCreations]_vars
  /\ [][(~memoryTool.created /\ calls'.execute > calls.execute)
          => toolCreations' = toolCreations + 1]_vars

C11_Witness ==
  /\ memoryTool.created
  /\ memoryTool.sessionKey # event.sessionKey
  /\ toolCreations = 2
  /\ calls.create = 0
  /\ calls.execute = 1

\* line is the hint line of the semantic hit: its score, and its path or the
\* end of its path
IsLineOfSemanticHit(line, hit) ==
  /\ line.score = hit.score
  /\ Len(line.path) <= Len(hit.path)
  /\ line.path = SubSeq(hit.path, Len(hit.path) - Len(line.path) + 1, Len(hit.path))

\* C12: the lines of a returned block are in the order in which the backend
\* returned the hits, on the keyword path (each line with the preview read
\* for its own hit, in whatever order the concurrent reads completed) and on
\* the semantic path.
C12_LinesInBackendOrder ==
  (TurnDone /\ result.kind = "hint" /\ result # Hint(DisabledBlock))
    => LET lines == result.prependContext.lines
       IN IF Len(results) > 0
          THEN /\ Len(lines) = Len(results)
               /\ \A k \in 1..Len(results) :
                    /\ lines[k].path = results[k].path
                    /\ lines[k].score = results[k].score
                    /\ lines[k].preview = snippets[k]
          ELSE /\ Len(lines) = Len(semanticHits)
               /\ \A k \in 1..Len(semanticHits) :
                    IsLineOfSemanticHit(lines[k], semanticHits[k])

C12_Witness ==
  /\ TurnDone
  /\ result.kind = "hint"
  /\ Len(results) = 2
  /\ readOrder = <<2, 1>>
  /\ snippets[1] # snippets[2]
  /\ results[1].path # results[2].path

\* C13: every external call is bounded, so a started turn eventually returns
\* even when the extractor endpoint or the keyword process never responds
\* (the semantic tool, the file reads and the log writes responding).
C13_TurnEventuallyReturns == (pc = "extract") ~> TurnDone

\* what the turn returns given the answers of the extractor, the keyword
\* process, the file reads and the semantic tool, the log left aside
ResultFromBackends ==
  IF Len(results) > 0
  THEN Hint(HintBlock([k \in 1..Len(results) |-> KeywordHint(results[k], snippets[k])]))
  ELSE IF Len(semanticHits) > 0
  THEN Hint(HintBlock([k \in 1..Len(semanticHits) |-> GeminiHint(semanticHits[k])]))
  ELSE Undefined

\* C14: a failed append of an audit record never reaches the turn: the result
\* is the one the extractor, keyword, file and semantic answers determine,
\* whether the appends succeeded or failed, and the steps after a failed
\* append still run (the previews are read, the semantic tool is asked).
C14_LogFailureInvisible ==
  (TurnDone /\ calls.qmd = 1)
    => /\ Len(results) > 0
            => (calls.snippet = Len(results) /\ Len(snippets) = Len(results) /\ pending = {})
       /\ (Len(results) = 0 /\ memoryTool.created)
            => (calls.execute = 1 /\ toolReply # NoReply)
       /\ result = ResultFromBackends

C14_Witness ==
  /\ TurnDone
  /\ "log" \in faults
  /\ turnLog = <<>>
  /\ Len(results) = 2
  /\ calls.snippet = 2
  /\ result.kind = "hint"

\* the number of lines of the trimmed text with three fields or more
HitLineCount(text) ==
  LET trimmed == Trim(text)
  IN Len(SelectSeq(LineStarts(trimmed), LAMBDA a : Len(LineCommas(trimmed, a)) >= 2))

\* C15 as claimed: whatever the keyword process writes, the hits, the result
\* list of every audit record and the lines of the returned block never
\* exceed 5.
C15_AtMostFiveHits ==
  /\ Len(results) <= 5
  /\ \A k \in 1..Len(turnLog) : Len(turnLog[k].results) <= 5
  /\ result.kind = "hint" => Len(result.prependContext.lines) <= 5

\* C15 as amended: the handler asks the keyword process for 5 matches but
\* keeps everything it prints: the hits, the result list of the audit record
\* and the lines of the returned block are as many as the output has lines of
\* three fields or more, so they stay within 5 only when the process does.
C15_HitsAreAllLinesWritten ==
  qmdOutcome.kind = "stdout"
    => LET n == HitLineCount(qmdOutcome.stdout)
       IN /\ Len(results) = n
          /\ (n > 0 /\ Len(turnLog) > 0) => Len(turnLog[1].results) = n
          /\ (n > 0 /\ TurnDone) => /\ result.kind = "hint"
                                    /\ Len(result.prependContext.lines) = n

C15_Witness ==
  /\ TurnDone
  /\ Len(results) = 6
  /\ Len(turnLog) = 1
  /\ Len(turnLog[1].results) = 6
  /\ result.kind = "hint"
  /\ Len(result.prependContext.lines) = 6

\* C16: a turn whose cleaned prompt the normalizer rejects (shorter than 3
\* characters, a slash command, an acknowledgement) calls neither the
\* extractor nor a search backend and writes no audit record.
C16_RejectedTurnCallsNothing ==
  (pc # "idle" /\ prompt # NullStr /\ Rejected(prompt))
    => /\ calls = NoCalls
       /\ extractReply = NoReply
       /\ turnLog = <<>>

\* the keyword lookup was made and gave no hit (an empty or failed lookup)
KeywordYieldedNothing == qmdOutcome # NoReply /\ Len(results) = 0

\* the tool's reply carries no text content
ReplyWithoutText == toolReply.kind \in {"no_content", "not_text"}

\* the tool's reply is text that JSON.parse rejects
ReplyUnparsable == toolReply.kind = "text" /\ ~toolReply.parses

\* the tool's reply parses to an object that is disabled or lists no result
ReplyDisabledOrEmpty ==
  /\ toolReply.kind = "text"
  /\ toolReply.parses
  /\ ~toolReply.value.isNull
  /\ \/ toolReply.value.disabled
     \/ ~toolReply.value.hasResults
     \/ Len(toolReply.value.results) = 0

\* C17: after a keyword lookup without hits, a semantic backend that is not
\* configured (no tool handle), disabled, without text content, unparsable
\* or empty counts as no hits: the turn returns undefined, neither a hint
\* block nor an error, and no fallback record is written.
C17_SemanticAbsenceIsNoHits ==
  (TurnDone /\ KeywordYieldedNothing
     /\ (~memoryTool.created \/ ReplyWithoutText \/ ReplyUnparsable \/ ReplyDisabledOrEmpty))
    => /\ result = Undefined
       /\ semanticHits = <<>>
       /\ calls.log = 1
       /\ ~memoryTool.created => (calls.execute = 0 /\ toolReply = NoReply)

C17_Witness ==
  /\ TurnDone
  /\ KeywordYieldedNothing
  /\ ReplyDisabledOrEmpty
  /\ toolReply.value.disabled
  /\ Len(toolReply.value.results) > 0
  /\ result = Undefined

\* p is made of the first characters of text
IsPrefixOf(p, text) ==
  /\ Len(p) <= Len(text)
  /\ \A i \in 1..Len(p) : p[i] = text[i]

\* C18: every preview of a hint line is within its maximum, 100 characters
\* for the preview of a keyword hit's file and 80 for a semantic snippet; the
\* preview of a longer semantic snippet is its first characters, and cutting
\* never makes the turn end in an error.
C18_PreviewsWithinMaximum ==
  /\ \A k \in 1..Len(snippets) : Len(snippets[k]) <= 100
  /\ (result.kind = "hint" /\ result # Hint(DisabledBlock))
       => LET lines == result.prependContext.lines
          IN IF Len(results) > 0
             THEN \A k \in 1..Len(lines) : Len(lines[k].preview) <= 100
             ELSE /\ Len(lines) = Len(semanticHits)
                  /\ \A k \in 1..Len(lines) :
                       /\ Len(lines[k].preview) <= 80
                       /\ IsPrefixOf(lines[k].preview,
                                     Trim(CollapseWs(semanticHits[k].snippet)))
  /\ result.kind # "thrown"

C18_Witness ==
  /\ TurnDone
  /\ result.kind = "hint"
  /\ Len(results) > 0
  /\ qmdOutcome.kind = "stdout"
  /\ \E k \in 1..Len(result.prependContext.lines) :
       Len(result.prependContext.lines[k].preview) = 100

\* the handler is between its first await and its return
TurnRunning == pc \notin {"idle", "done"}

\* C19: within one turn no external call is retried and at most one hint
\* block is returned: the extractor is requested at most once, the keyword
\* backend at most once and with the term query, the semantic backend at most
\* once and (hybrid variant) with the first 200 characters of the cleaned
\* prompt; the handler has no result while it runs and, once it has returned
\* a block, that block stays its result until the next turn begins.
C19_NoRetryOneBlock ==
  /\ [](calls.extract <= 1 /\ calls.qmd <= 1 /\ calls.create <= 1 /\ calls.execute <= 1)
  /\ [](qmdQuery # NullStr => (calls.qmd = 1 /\ qmdQuery = searchQuery))
  /\ []((variant = "hybrid" /\ toolQuery # NullStr)
          => (calls.execute = 1 /\ Len(toolQuery) <= 200 /\ IsPrefixOf(toolQuery, prompt)))
  /\ [](TurnRunning => result = Pending)
  /\ [][TurnRunning => /\ calls'.extract >= calls.extract
                       /\ calls'.qmd >= calls.qmd
                       /\ calls'.execute >= calls.execute]_vars
  /\ [][result.kind = "hint"
         => \/ result' = result
            \/ pc = "done" /\ calls'.qmd = 0 /\ calls'.execute = 0
                           /\ result' \in {Pending, Undefined}]_vars

C19_Witness ==
  /\ variant = "hybrid"
  /\ TurnDone
  /\ faults = {"qmd"}
  /\ calls.extract = 1
  /\ calls.qmd = 1
  /\ calls.execute = 1
  /\ result.kind = "hint"

\* the positions of text at which a run of characters other than whitespace starts
WordStarts(text) ==
  SelectSeq(Positions(text),
            LAMBDA a : ~IsWs(text[a]) /\ (a = 1 \/ IsWs(text[a-1])))

\* the run of characters other than whitespace that starts at a
WordAt(text, a) ==
  LET ends == {b \in a..Len(text) : b = Len(text) \/ IsWs(text[b+1])}
      b    == CHOOSE e \in ends : \A f \in ends : e <= f
  IN SubSeq(text, a, b)

\* word without its ? . , ! is a stop word
IsStopWord(word) ==
  \E s \in StopWords :
    LET at == SelectSeq(Positions(word), LAMBDA k : word[k] \notin {"?", ".", ",", "!"})
    IN /\ Len(at) = Len(s)
       /\ \A k \in 1..Len(s) : word[at[k]] = s[k]

\* the words of the lower-cased text that are longer than one character and
\* no stop word, in their order
KeptWords(text) ==
  LET lower  == [i \in 1..Len(text) |-> ToLowerChar(text[i])]
      starts == SelectSeq(WordStarts(lower),
                          LAMBDA a : Len(WordAt(lower, a)) > 1 /\ ~IsStopWord(WordAt(lower, a)))
  IN [j \in 1..Len(starts) |-> WordAt(lower, starts[j])]

\* C20: in the legacy variant, when the extractor gave nothing, the search
\* query is made of the words of the lower-cased cleaned prompt (split at
\* whitespace) that are longer than one character and, without their ? . , !,
\* no stop word: exactly those, unchanged, in their order, one space between.
C20_StopWordQueryKeepsTokens ==
  (variant = "legacy" /\ extractReply # NoReply /\ llmEntities = NullStr)
    => LET kept == KeptWords(prompt)
       IN /\ Len(kept) = 0 => searchQuery = <<>>
          /\ Len(kept) > 0 => Split(searchQuery, " ") = kept
          /\ toolQuery # NullStr => toolQuery = searchQuery

C20_Witness ==
  /\ variant = "legacy"
  /\ extractReply.kind = "http_error"
  /\ llmEntities = NullStr
  /\ Len(WordStarts(prompt)) = 6
  /\ \E a \in 1..Len(prompt) : WordAt(prompt, a) = <<"a","?">>
  /\ searchQuery = <<"p","l","a","n",","," ","t","o","r","o","n","t","o">>
  /\ toolQuery = searchQuery
  /\ calls.execute = 1

\* the handler returned a block other than the one saying recall is disabled
ReturnedHints == result.kind = "hint" /\ result # Hint(DisabledBlock)

\* C21: a returned block other than the "recall disabled" one lists at least
\* one hint line, one for each hit of the path that produced it: a "Possibly
\* relevant" block without a line is never returned.
C21_HintBlockNeverEmpty ==
  ReturnedHints
    => /\ result.prependContext.heading = "Possibly relevant (read if needed):"
       /\ Len(result.prependContext.lines) >= 1
       /\ Len(result.prependContext.lines)
            = (IF Len(results) > 0 THEN Len(results) ELSE Len(semanticHits))

C21_Witness ==
  /\ TurnDone
  /\ ReturnedHints
  /\ qmdOutcome.kind = "stdout"
  /\ Len(results) = 0
  /\ Len(semanticHits) = 1
  /\ Len(result.prependContext.lines) = 1

\* C22: in the hybrid variant, when the accepted response of the extractor
\* gives a query shorter than 2 characters (only commas, a single letter),
\* the turn returns undefined at once: no keyword search, no tool handle, no
\* semantic search, no audit record.
C22_ShortQuerySilent ==
  (variant = "hybrid" /\ llmEntities # NullStr /\ Len(CappedQuery(llmEntities)) < 2)
    => /\ TurnDone
       /\ result = Undefined
       /\ calls = [NoCalls EXCEPT !.extract = 1]
       /\ qmdQuery = NullStr
       /\ qmdOutcome = NoReply
       /\ toolQuery = NullStr
       /\ toolReply = NoReply
       /\ turnLog = <<>>

C22_Witness ==
  /\ variant = "hybrid"
  /\ TurnDone
  /\ extractReply.kind = "response"
  /\ llmEntities = <<",", ",">>
  /\ searchQuery = <<>>
  /\ result = Undefined
  /\ calls.qmd = 0

\* C23 as claimed: the first turn that needs the tool creates the handle,
\* with its own session key: once the factory has been called a handle
\* exists, and after the first call made by the current turn the handle
\* carries that turn's session key.
C23_FirstNeedingTurnCreates ==
  /\ toolCreations >= 1 => memoryTool.created
  /\ (toolCreations = 1 /\ calls.create = 1)
       => memoryTool.sessionKey = event.sessionKey

\* C23 as amended: the handle is created by the first turn for which the
\* factory returns one, with that turn's session key (a turn for which it
\* returns null or throws leaves none and makes no semantic search); from
\* then on the handle and its key never change, and every turn, whatever its
\* session key, searches through it without calling the factory.
C23_HandleKeepsCreatingKey ==
  /\ [](memoryTool.created <=> memoryTool.sessionKey \in SessionKeys)
  /\ [][(~memoryTool.created /\ memoryTool'.created /\ calls' # calls)
          => /\ calls'.create = calls.create + 1
             /\ memoryTool'.sessionKey = event.sessionKey]_vars
  /\ [][(calls'.create = calls.create + 1 /\ ~memoryTool'.created)
          => (calls'.execute = calls.execute /\ pc' = "done" /\ result' = Undefined)]_vars
  /\ [][memoryTool.created
          => (memoryTool'.created /\ memoryTool'.sessionKey = memoryTool.sessionKey)]_vars
  /\ [][(memoryTool.created /\ calls'.execute = calls.execute + 1)
          => (calls'.create = calls.create /\ memoryTool' = memoryTool)]_vars

C23_Witness ==
  /\ TurnDone
  /\ memoryTool = Tool("s1")
  /\ event.sessionKey = "s2"
  /\ toolCreations = 1
  /\ calls.create = 0
  /\ calls.execute = 1
  /\ toolReply # NoReply

\* C10: cleaning is idempotent: cleaning a cleaned prompt changes nothing.
C10_CleaningIdempotent ==
  prompt # NullStr => CleanPrompt(prompt) = prompt

====
